---- MODULE Spec2Model ----
(***************************************************************************)
(* A model of scraper.py: the course-catalog scraper that fetches course   *)
(* records over HTTP (fetch_json), collects them with one of two           *)
(* strategies (search_strategy, all_subjects_strategy), filters,           *)
(* deduplicates and sorts them (normalise) and exports the rows (main).    *)
(*                                                                         *)
(* Text is modelled as a sequence of one-character strings, so that        *)
(* str.strip, the regular expression of mentions_math_31a and the          *)
(* lexicographic order used by list.sort are computed, not assumed.        *)
(* A JSON value is a record [t, v]: t is its Python type after json.loads  *)
(* ("str", "num", "null", "dict", "list") and v its content.               *)
(***************************************************************************)
EXTENDS Integers, Sequences, FiniteSets, TLC

(***************************************************************************)
(* Characters and strings                                                  *)
(***************************************************************************)

\* The characters the model's texts use, in code point order.
CodePoints ==
    << "\t", "\n", " ", ".", "0", "1", "2", "3", "4", "5", "6", "7", "8", "9",
       "A", "B", "C", "H", "M", "T", "_", "a", "c", "e", "h", "i", "m", "s",
       "t", "x" >>

Ord(ch) == CHOOSE i \in 1..Len(CodePoints) : CodePoints[i] = ch

\* str.strip() with no argument removes these from both ends.
WhiteSpace == {"\t", "\n", " "}

\* \w of the re module: letters, digits and the underscore.
WordChars ==
    {"0", "1", "2", "3", "4", "5", "6", "7", "8", "9", "A", "B", "C", "H", "M",
     "T", "_", "a", "c", "e", "h", "i", "m", "s", "t", "x"}

RECURSIVE LStrip(_)
LStrip(s) ==
    IF s # <<>> /\ Head(s) \in WhiteSpace THEN LStrip(Tail(s)) ELSE s

RECURSIVE RStrip(_)
RStrip(s) ==
    IF s # <<>> /\ s[Len(s)] \in WhiteSpace
    THEN RStrip(SubSeq(s, 1, Len(s) - 1))
    ELSE s

\* str.strip()
Strip(s) == RStrip(LStrip(s))

\* a < b for Python str: lexicographic by code point, a proper prefix first.
RECURSIVE StrLess(_, _)
StrLess(a, b) ==
    IF b = <<>> THEN FALSE
    ELSE IF a = <<>> THEN TRUE
    ELSE IF Head(a) = Head(b) THEN StrLess(Tail(a), Tail(b))
    ELSE Ord(Head(a)) < Ord(Head(b))

(***************************************************************************)
(* JSON values as json.loads returns them                                  *)
(***************************************************************************)

Str(s)   == [t |-> "str", v |-> s]
Num(n)   == [t |-> "num", v |-> n]
Null     == [t |-> "null", v |-> <<>>]
Dict(f)  == [t |-> "dict", v |-> f]
List(xs) == [t |-> "list", v |-> xs]

\* Python truthiness, as used by `x or ""`.
Truthy(x) ==
    CASE x.t = "null" -> FALSE
      [] x.t = "str"  -> x.v # <<>>
      [] x.t = "num"  -> x.v # 0
      [] x.t = "dict" -> DOMAIN x.v # {}
      [] x.t = "list" -> x.v # <<>>

\* x or ""
OrEmpty(x) == IF Truthy(x) THEN x ELSE Str(<<>>)

\* c.get(key, "") on a dict c
GetOrEmpty(c, key) == IF key \in DOMAIN c.v THEN c.v[key] ELSE Str(<<>>)

\* c.get(key) on a dict c
GetOrNone(c, key) == IF key \in DOMAIN c.v THEN c.v[key] ELSE Null

DecimalDigits == << "0", "1", "2", "3", "4", "5", "6", "7", "8", "9" >>

\* str(x) for a str or a one-digit int, the values the model gives to it
PyStr(x) == IF x.t = "num" THEN << DecimalDigits[x.v + 1] >> ELSE x.v

(***************************************************************************)
(* mentions_math_31a: _PREREQ_RE.search(text or "")                        *)
(***************************************************************************)

\* The alternatives of (?:Mathematics|Math\.?|MATH), Math\.? giving two.
Labels ==
    { << "M", "a", "t", "h", "e", "m", "a", "t", "i", "c", "s" >>,
      << "M", "a", "t", "h" >>,
      << "M", "a", "t", "h", "." >>,
      << "M", "A", "T", "H" >> }

CourseCode == << "3", "1", "A" >>

\* w occurs in s at position i
OccursAt(s, i, w) ==
    /\ i + Len(w) - 1 <= Len(s)
    /\ SubSeq(s, i, i + Len(w) - 1) = w

IsWordAt(s, i) == i >= 1 /\ i <= Len(s) /\ s[i] \in WordChars

\* \b between positions i - 1 and i
WordBoundary(s, i) == IsWordAt(s, i - 1) # IsWordAt(s, i)

\* \b label \s+ 31A \b matches with the label at i and 31A at k
MatchesAt(s, i, k) ==
    /\ WordBoundary(s, i)
    /\ \E lab \in Labels :
          /\ OccursAt(s, i, lab)
          /\ i + Len(lab) < k
          /\ \A m \in (i + Len(lab))..(k - 1) : s[m] \in WhiteSpace
    /\ OccursAt(s, k, CourseCode)
    /\ WordBoundary(s, k + Len(CourseCode))

\* _PREREQ_RE.search(s) is not None, for a str s
PrereqSearch(s) ==
    \E i \in 1..Len(s) : \E k \in (i + 1)..Len(s) : MatchesAt(s, i, k)

\* re.search raises TypeError when `text or ""` is not a str
MatcherRaises(x) == OrEmpty(x).t # "str"

mentions_math_31a(x) == PrereqSearch(OrEmpty(x).v)

(***************************************************************************)
(* normalise: the parts of one loop iteration, and the final sort          *)
(***************************************************************************)

\* c.get(key, "").strip() raises AttributeError unless the value is a str
KeyFieldRaises(c, key) == GetOrEmpty(c, key).t # "str"

\* lines 166-169: c.get on a non-dict, or .strip() on a non-str, raises
KeyRaises(c) ==
    \/ c.t # "dict"
    \/ KeyFieldRaises(c, "subj_area_cd")
    \/ KeyFieldRaises(c, "course_title")

\* lines 166-169: the deduplication key
Key(c) ==
    << Strip(GetOrEmpty(c, "subj_area_cd").v),
       Strip(GetOrEmpty(c, "course_title").v) >>

\* A faulty variant of line 170: no record is ever taken for a duplicate.
DedupSkips_Never(key, seenKeys) == FALSE

\* line 170: `if key in seen: continue`
DedupSkips(key, seenKeys) == key \in seenKeys

\* (c.get(key) or "").strip() raises AttributeError unless it is a str
TextFieldRaises(c, key) == OrEmpty(GetOrNone(c, key)).t # "str"

\* (c.get(key) or "").strip()
TextField(c, key) == Strip(OrEmpty(GetOrNone(c, key)).v)

\* line 175
Desc(c) == TextField(c, "crs_desc")

\* A faulty variant of line 176: the post-filter lets every record through.
PostFilterSkips_Never(desc) == FALSE

\* line 176: `if not mentions_math_31a(desc): continue`
PostFilterSkips(desc) == ~mentions_math_31a(Str(desc))

\* lines 180-183 raise when a text field is a truthy non-str
RowRaises(c) ==
    \/ TextFieldRaises(c, "subj_area_nm")
    \/ TextFieldRaises(c, "course_title")
    \/ TextFieldRaises(c, "crs_career_lvl_nm")

\* lines 179-185
MakeRow(c) ==
    [ subject_area |-> TextField(c, "subj_area_nm"),
      course_name  |-> TextField(c, "course_title"),
      units        |-> Strip(PyStr(OrEmpty(GetOrNone(c, "unt_rng")))),
      level        |-> TextField(c, "crs_career_lvl_nm"),
      description  |-> Desc(c) ]

\* line 188: the sort key's order, tuples compared component by component
SortKeyLess(r1, r2) ==
    \/ StrLess(r1.subject_area, r2.subject_area)
    \/ /\ r1.subject_area = r2.subject_area
       /\ StrLess(r1.course_name, r2.course_name)

\* A stable insertion of r into the sorted sequence rs.
RECURSIVE InsertRow(_, _)
InsertRow(r, rs) ==
    IF rs = <<>> THEN << r >>
    ELSE IF SortKeyLess(r, Head(rs)) THEN << r >> \o rs
    ELSE << Head(rs) >> \o InsertRow(r, Tail(rs))

RECURSIVE StableSort(_)
StableSort(rs) ==
    IF rs = <<>> THEN <<>>
    ELSE InsertRow(rs[Len(rs)], StableSort(SubSeq(rs, 1, Len(rs) - 1)))

\* A faulty variant of line 188: the rows are left in input order.
SortRows_InputOrder(rs) == rs

\* line 188: rows.sort(key=...), a stable sort
SortRows(rs) == StableSort(rs)

(***************************************************************************)
(* Inputs: what the upstream API may answer                                *)
(***************************************************************************)

\* Longest raw-record sequence given to normalise.
MaxCourses == 3

\* Longest subject list the subject endpoint answers.
MaxSubjects == 2

SeqsUpTo(S, n) == UNION { [1..k -> S] : k \in 0..n }

MatchA  == << "M", "a", "t", "h", " ", "3", "1", "A" >>
MatchB  == << " ", "M", "A", "T", "H", " ", "3", "1", "A", "." >>
NoMatch == << "M", "a", "t", "h", " ", "1", "3", "1", "A" >>

Course(cd, title, nm, desc) ==
    Dict([ subj_area_cd      |-> Str(cd),
           subj_area_nm      |-> Str(nm),
           course_title      |-> Str(title),
           unt_rng           |-> Num(4),
           crs_career_lvl_nm |-> Str(<< "x" >>),
           crs_desc          |-> Str(desc) ])

\* Well-formed records: keys (C,2), (C,2) again with blanks, (C,3), (M,2),
\* each with two matching descriptions and one that does not match.
SampleCourses ==
    { Course(k[1], k[2], k[3], d) :
        k \in { << << "C" >>,      << "2" >>,      << "M" >> >>,
                << << "C", " " >>, << " ", "2" >>, << "C" >> >>,
                << << "C" >>,      << "3" >>,      << "C" >> >>,
                << << "M" >>,      << "2" >>,      << "C", " " >> >> },
        d \in { MatchA, MatchB, NoMatch } }

Fields ==
    { "subj_area_cd", "subj_area_nm", "course_title", "unt_rng",
      "crs_career_lvl_nm", "crs_desc" }

\* How a field of a raw record may come: not at all, "", null, or a value
\* (a str; the unit range also as a number).
FieldKinds(f) ==
    {"absent", "empty", "null", "value"}
        \cup (IF f = "unt_rng" THEN {"number"} ELSE {})

FieldValue(f, kind) ==
    CASE kind = "empty"  -> Str(<<>>)
      [] kind = "null"   -> Null
      [] kind = "number" -> Num(4)
      [] kind = "value"  ->
            IF f = "crs_desc" THEN Str(MatchB) ELSE Str(<< " ", "C", " " >>)

Shapes == { sh \in [Fields -> {"absent", "empty", "null", "value", "number"}] :
              \A f \in Fields : sh[f] \in FieldKinds(f) }

ShapedCourse(sh) ==
    Dict([ f \in { g \in Fields : sh[g] # "absent" } |-> FieldValue(f, sh[f]) ])

ShapedCourses == { ShapedCourse(sh) : sh \in Shapes }

\* A list item that is not a record object.
NotARecord == Str(<< "x" >>)

\* What normalise is given: sequences of well-formed records, one record of
\* every shape, and lists holding something that is no record.
NormaliseInputs ==
    SeqsUpTo(SampleCourses, MaxCourses)
        \cup { << c >> : c \in ShapedCourses }
        \cup { << NotARecord >> }

\* Longest result list the search endpoint answers.
MaxResults == 2

CourseA == Course(<< "C" >>, << "2" >>, << "M" >>, MatchA)
CourseB == Course(<< "C", " " >>, << " ", "2" >>, << "C" >>, MatchB)
CourseN == Course(<< "M" >>, << "2" >>, << "C" >>, NoMatch)

\* A record whose subject code is null.
CourseNullCode ==
    Dict([ subj_area_cd |-> Null, course_title |-> Str(<< "2" >>),
           crs_desc |-> Str(MatchA) ])

\* An error body: a JSON object where a list is expected.
ErrorBody == Dict([ error |-> Str(<< "x" >>) ])

SearchPayloads ==
    { List(xs) : xs \in SeqsUpTo({CourseA, CourseB, CourseN}, MaxResults) }
        \cup { List(<< CourseNullCode >>), List(<< NotARecord >>), ErrorBody }

Subject(cd) ==
    Dict([ subj_area_cd |-> Str(cd), display_value |-> Str(cd) ])

SampleSubjects ==
    { Subject(<< "M" >>), Subject(<< " ", "C" >>),
      Dict([ subj_area_cd |-> Null ]) }

SubjectPayloads ==
    { List(xs) : xs \in SeqsUpTo(SampleSubjects, MaxSubjects) }
        \cup { ErrorBody }

CoursePayloads ==
    { List(<<>>), List(<< CourseA >>), List(<< CourseN, CourseB >>),
      List(<< NotARecord >>), ErrorBody }

Payloads(ctx) ==
    CASE ctx = "search"   -> SearchPayloads
      [] ctx = "subjects" -> SubjectPayloads
      [] ctx = "courses"  -> CoursePayloads

(***************************************************************************)
(* State                                                                   *)
(***************************************************************************)

VARIABLES
    args,       \* the parsed command line: [all_subjects, csv]
    pc,         \* where the (single) thread of control is
    fctx,       \* which call of fetch_json is the current or the last one
    attempt,    \* fetch_json: the loop variable
    waits,      \* fetch_json: the time.sleep durations of the call, in order
    outcomes,   \* fetch_json: what each urlopen of the call met (history)
    fres,       \* what the last fetch_json call returned or raised
    subjects,   \* all_subjects_strategy: the subject list
    si,         \* all_subjects_strategy: the 1-based loop index
    matching,   \* all_subjects_strategy: the accumulated hits
    fetched,    \* the subject indexes fetch_json was called for (history)
    got,        \* per subject, what its fetch_json call gave (history)
    polite,     \* number of polite delays (time.sleep(0.3)) taken
    raw,        \* main: the collected raw records
    ni,         \* normalise: the 1-based position in courses
    seen,       \* normalise: the keys seen
    rows,       \* normalise: the rows; after the return, main's rows
    kept,       \* input positions of the records appended to rows (history)
    exports,    \* the export calls made, each with whether it completed
    exc,        \* the exception that ended the run, if any
    exit_code   \* the process exit status, -1 while running

fetchVars == << fctx, attempt, waits, outcomes, fres >>
subjVars  == << subjects, si, matching, fetched, got, polite >>
normVars  == << raw, ni, seen, rows, kept >>
vars == << args, pc, fctx, attempt, waits, outcomes, fres, subjects, si,
           matching, fetched, got, polite, raw, ni, seen, rows, kept,
           exports, exc, exit_code >>

NoResult == [st |-> "none", val |-> Null, err |-> ""]
NoExc    == [at |-> "", type |-> ""]

Init ==
    /\ args \in [all_subjects : BOOLEAN, csv : BOOLEAN]
    /\ pc = "main"
    /\ fctx = "none"
    /\ attempt = 0
    /\ waits = <<>>
    /\ outcomes = <<>>
    /\ fres = NoResult
    /\ subjects = <<>>
    /\ si = 1
    /\ matching = <<>>
    /\ fetched = <<>>
    /\ got = <<>>
    /\ polite = 0
    /\ raw = <<>>
    /\ ni = 1
    /\ seen = {}
    /\ rows = <<>>
    /\ kept = <<>>
    /\ exports = <<>>
    /\ exc = NoExc
    /\ exit_code = -1

\* An exception nobody catches: the interpreter prints the traceback and
\* the process ends with status 1.
Abort(where, type) ==
    /\ exc' = [at |-> where, type |-> type]
    /\ pc' = "exit"
    /\ exit_code' = 1

\* sys.exit(code), or main returning (code 0)
Exit(code) ==
    /\ pc' = "exit"
    /\ exit_code' = code
    /\ UNCHANGED exc

(***************************************************************************)
(* fetch_json                                                              *)
(***************************************************************************)

retries == 3
backoff == 2

HttpErrorCodes == {404, 429, 500, 503}

\* A faulty variant of line 83: every 5xx answer is retried as well.
Retryable_Any5xx(code) == code \in {429, 500, 503}

\* line 83: exc.code in (429, 503)
Retryable(code) == code \in {429, 503}

\* A faulty variant of line 84: the wait does not grow with the attempt.
RateLimitWait_Flat(a) == backoff

\* line 84: time.sleep(backoff * (attempt + 1))
RateLimitWait(a) == backoff * (a + 1)

\* A faulty variant of line 88: the last attempt's exception is retried too.
MayRetry_Always(a) == TRUE

\* line 88: attempt < retries - 1
MayRetry(a) == a < retries - 1

\* The caller's line after its fetch_json call.
ReturnTo(ctx) ==
    CASE ctx = "search"   -> "search_strategy"
      [] ctx = "subjects" -> "all_subjects_1"
      [] ctx = "courses"  -> "all_subjects_2"

\* Entering fetch_json(url) from the caller ctx.
CallFetch(ctx) ==
    /\ pc' = "fetch_json"
    /\ fctx' = ctx
    /\ attempt' = 0
    /\ waits' = <<>>
    /\ outcomes' = <<>>
    /\ fres' = NoResult

FetchReturn(val) ==
    /\ fres' = [st |-> "ok", val |-> val, err |-> ""]
    /\ pc' = ReturnTo(fctx)

FetchRaise(type) ==
    /\ fres' = [st |-> "raised", val |-> Null, err |-> type]
    /\ pc' = ReturnTo(fctx)

InFetchLoop == pc = "fetch_json" /\ attempt < retries

\* lines 78-80: the request is answered and the body parses
FetchOk ==
    /\ InFetchLoop
    /\ \E body \in Payloads(fctx) :
          /\ FetchReturn(body)
          /\ outcomes' = Append(outcomes, [kind |-> "ok", code |-> 200,
                                           body |-> body])
    /\ UNCHANGED << args, fctx, attempt, waits, subjVars, normVars,
                    exports, exc, exit_code >>

\* lines 81-86: urlopen raises HTTPError
FetchHTTPError ==
    /\ InFetchLoop
    /\ \E code \in HttpErrorCodes :
          /\ outcomes' = Append(outcomes, [kind |-> "HTTPError", code |-> code,
                                           body |-> Null])
          /\ IF Retryable(code)
             THEN /\ waits' = Append(waits, RateLimitWait(attempt))
                  /\ attempt' = attempt + 1
                  /\ UNCHANGED << fres, pc >>
             ELSE /\ FetchRaise("HTTPError")
                  /\ UNCHANGED << waits, attempt >>
    /\ UNCHANGED << args, fctx, subjVars, normVars, exports, exc, exit_code >>

\* lines 87-91: any other exception (URLError, a timeout, a body that is
\* not JSON)
FetchException ==
    /\ InFetchLoop
    /\ outcomes' = Append(outcomes, [kind |-> "Exception", code |-> 0,
                                         body |-> Null])
    /\ IF MayRetry(attempt)
       THEN /\ waits' = Append(waits, backoff)
            /\ attempt' = attempt + 1
            /\ UNCHANGED << fres, pc >>
       ELSE /\ FetchRaise("Exception")
            /\ UNCHANGED << waits, attempt >>
    /\ UNCHANGED << args, fctx, subjVars, normVars, exports, exc, exit_code >>

\* line 92: the loop ran out, `return []`
FetchExhausted ==
    /\ pc = "fetch_json"
    /\ attempt = retries
    /\ FetchReturn(List(<<>>))
    /\ UNCHANGED << args, fctx, attempt, waits, outcomes, subjVars, normVars,
                    exports, exc, exit_code >>

\* The frame of a finished fetch_json call is gone once the caller resumes.
PopFetch ==
    /\ attempt' = 0
    /\ waits' = <<>>
    /\ outcomes' = <<>>
    /\ UNCHANGED << fctx, fres >>

(***************************************************************************)
(* main, up to the collection step                                         *)
(***************************************************************************)

\* lines 257-263: main calls the strategy, which calls fetch_json first
MainStart ==
    /\ pc = "main"
    /\ CallFetch(IF args.all_subjects THEN "subjects" ELSE "search")
    /\ UNCHANGED << args, subjVars, normVars, exports, exc, exit_code >>

(***************************************************************************)
(* search_strategy                                                         *)
(***************************************************************************)

\* line 107: isinstance(results, list)
IsList(x) == x.t = "list"

\* lines 106-110, from the return of fetch_json; an exception of fetch_json
\* is caught neither here nor in main
SearchReturn ==
    /\ pc = "search_strategy"
    /\ IF fres.st = "raised"
       THEN /\ Abort("fetch_json", fres.err)
            /\ UNCHANGED << fetchVars, raw >>
       ELSE /\ raw' = IF IsList(fres.val) THEN fres.val.v ELSE <<>>
            /\ pc' = "main_raw"
            /\ PopFetch
            /\ UNCHANGED << exc, exit_code >>
    /\ UNCHANGED << args, subjVars, ni, seen, rows, kept, exports >>

(***************************************************************************)
(* all_subjects_strategy                                                   *)
(***************************************************************************)

\* lines 121-127, from the return of fetch_json(EP_ALL_SUBJECTS)
SubjectsReturn ==
    /\ pc = "all_subjects_1"
    /\ IF fres.st = "raised"
       THEN /\ Abort("fetch_json", fres.err)
            /\ UNCHANGED << fetchVars, subjects, raw >>
       ELSE /\ PopFetch
            /\ UNCHANGED << exc, exit_code >>
            /\ IF IsList(fres.val)
               THEN /\ subjects' = fres.val.v
                    /\ pc' = "all_subjects_loop"
                    /\ UNCHANGED raw
               ELSE /\ raw' = <<>>
                    /\ pc' = "main_raw"
                    /\ UNCHANGED subjects
    /\ UNCHANGED << args, si, matching, fetched, got, polite, ni, seen, rows,
                    kept, exports >>

\* lines 130-131: subj.get(..., "").strip() raises AttributeError when subj
\* is no dict or the value is no str
SubjectRaises(subj) ==
    \/ subj.t # "dict"
    \/ KeyFieldRaises(subj, "subj_area_cd")
    \/ KeyFieldRaises(subj, "display_value")

\* lines 129-136 and 146: the loop head; either the list is done and
\* matching is returned, or the next subject's courses are fetched
SubjectLoop ==
    /\ pc = "all_subjects_loop"
    /\ IF si > Len(subjects)
       THEN /\ raw' = matching
            /\ pc' = "main_raw"
            /\ UNCHANGED << fetchVars, fetched, exc, exit_code >>
       ELSE IF SubjectRaises(subjects[si])
       THEN /\ Abort("all_subjects_strategy", "AttributeError")
            /\ UNCHANGED << fetchVars, fetched, raw >>
       ELSE /\ CallFetch("courses")
            /\ fetched' = Append(fetched, si)
            /\ UNCHANGED << raw, exc, exit_code >>
    /\ UNCHANGED << args, subjects, si, matching, got, polite, ni, seen, rows,
                    kept, exports >>

\* line 141 raises when courses cannot be iterated (None, a number), when an
\* item has no .get (the keys of a dict, the characters of a str, an item
\* that is no dict), or when the matcher is given a truthy non-str
HitsRaises(courses) ==
    CASE courses.t = "list" ->
            \E n \in 1..Len(courses.v) :
                \/ courses.v[n].t # "dict"
                \/ MatcherRaises(GetOrEmpty(courses.v[n], "crs_desc"))
      [] courses.t = "dict" -> DOMAIN courses.v # {}
      [] courses.t = "str"  -> courses.v # <<>>
      [] OTHER              -> TRUE

\* line 141: the courses whose description passes the matcher, in order
Hits(courses) ==
    IF courses.t = "list"
    THEN SelectSeq(courses.v,
                   LAMBDA c : mentions_math_31a(GetOrEmpty(c, "crs_desc")))
    ELSE <<>>

\* lines 136-144, from the return of fetch_json(url): `except Exception`
\* covers the call only, the filtering is outside the try
CoursesReturn ==
    /\ pc = "all_subjects_2"
    /\ IF fres.st = "raised"
       THEN /\ got' = Append(got, [failed |-> TRUE, body |-> Null])
            /\ si' = si + 1
            /\ pc' = "all_subjects_loop"
            /\ PopFetch
            /\ UNCHANGED << matching, polite, exc, exit_code >>
       ELSE IF HitsRaises(fres.val)
       THEN /\ Abort("all_subjects_strategy",
                     IF fres.val.t \in {"null", "num"}
                     THEN "TypeError" ELSE "AttributeError")
            /\ UNCHANGED << fetchVars, si, matching, got, polite >>
       ELSE /\ got' = Append(got, [failed |-> FALSE, body |-> fres.val])
            /\ matching' = matching \o Hits(fres.val)
            /\ polite' = polite + 1
            /\ si' = si + 1
            /\ pc' = "all_subjects_loop"
            /\ PopFetch
            /\ UNCHANGED << exc, exit_code >>
    /\ UNCHANGED << args, subjects, fetched, normVars, exports >>

(***************************************************************************)
(* main, after the collection step; normalise; the exports                 *)
(***************************************************************************)

\* line 265: `not raw`
NoRaw(r) == r = <<>>

\* lines 265-272: no records, exit 1; else normalise(raw) is entered
MainCheckRaw ==
    /\ pc = "main_raw"
    /\ IF NoRaw(raw)
       THEN /\ Exit(1)
            /\ UNCHANGED << ni, seen, rows, kept >>
       ELSE /\ pc' = "normalise"
            /\ ni' = 1
            /\ seen' = {}
            /\ rows' = <<>>
            /\ kept' = <<>>
            /\ UNCHANGED << exc, exit_code >>
    /\ UNCHANGED << args, fetchVars, subjVars, raw, exports >>

\* lines 165-185: one iteration of `for c in courses`
NormaliseStep ==
    /\ pc = "normalise"
    /\ ni <= Len(raw)
    /\ LET c == raw[ni] IN
         IF KeyRaises(c)
         THEN /\ Abort("normalise", "AttributeError")
              /\ UNCHANGED << ni, seen, rows, kept >>
         ELSE IF DedupSkips(Key(c), seen)
         THEN /\ ni' = ni + 1
              /\ UNCHANGED << pc, seen, rows, kept, exc, exit_code >>
         ELSE /\ seen' = seen \cup { Key(c) }
              /\ IF TextFieldRaises(c, "crs_desc")
                 THEN /\ Abort("normalise", "AttributeError")
                      /\ UNCHANGED << ni, rows, kept >>
                 ELSE IF PostFilterSkips(Desc(c))
                 THEN /\ ni' = ni + 1
                      /\ UNCHANGED << pc, rows, kept, exc, exit_code >>
                 ELSE IF RowRaises(c)
                 THEN /\ Abort("normalise", "AttributeError")
                      /\ UNCHANGED << ni, rows, kept >>
                 ELSE /\ rows' = Append(rows, MakeRow(c))
                      /\ kept' = Append(kept, ni)
                      /\ ni' = ni + 1
                      /\ UNCHANGED << pc, exc, exit_code >>
    /\ UNCHANGED << args, fetchVars, subjVars, raw, exports >>

\* lines 187-189: sort and return to main (line 272)
NormaliseReturn ==
    /\ pc = "normalise"
    /\ ni > Len(raw)
    /\ rows' = SortRows(rows)
    /\ pc' = "main_rows"
    /\ UNCHANGED << args, fetchVars, subjVars, raw, ni, seen, kept, exports,
                    exc, exit_code >>

\* A faulty variant of line 275: main goes on to export whatever rows holds.
NoRows_Never(r) == FALSE

\* line 275: `not rows`
NoRows(r) == r = <<>>

\* lines 275-289: no rows, exit 1; else on to the export
MainCheckRows ==
    /\ pc = "main_rows"
    /\ IF NoRows(rows) THEN Exit(1)
       ELSE /\ pc' = "export_excel"
            /\ UNCHANGED << exc, exit_code >>
    /\ UNCHANGED << args, fetchVars, subjVars, normVars, exports >>

\* line 293: `if args.csv`
WantsCsv(a) == a.csv

\* lines 291-297: export_excel(rows, out_path) writes the file or raises
\* (OSError on a path that cannot be written)
ExportExcel ==
    /\ pc = "export_excel"
    /\ \E ok \in BOOLEAN :
          /\ exports' = Append(exports, [fn |-> "export_excel", done |-> ok])
          /\ IF ~ok THEN Abort("export_excel", "OSError")
             ELSE IF WantsCsv(args)
             THEN pc' = "export_csv" /\ UNCHANGED << exc, exit_code >>
             ELSE Exit(0)
    /\ UNCHANGED << args, fetchVars, subjVars, normVars >>

\* lines 294-297: export_csv(rows, csv_path), then main returns
ExportCsv ==
    /\ pc = "export_csv"
    /\ \E ok \in BOOLEAN :
          /\ exports' = Append(exports, [fn |-> "export_csv", done |-> ok])
          /\ IF ok THEN Exit(0) ELSE Abort("export_csv", "OSError")
    /\ UNCHANGED << args, fetchVars, subjVars, normVars >>

(***************************************************************************)
(* Specifications                                                          *)
(***************************************************************************)

Next ==
    \/ MainStart
    \/ FetchOk
    \/ FetchHTTPError
    \/ FetchException
    \/ FetchExhausted
    \/ SearchReturn
    \/ SubjectsReturn
    \/ SubjectLoop
    \/ CoursesReturn
    \/ MainCheckRaw
    \/ NormaliseStep
    \/ NormaliseReturn
    \/ MainCheckRows
    \/ ExportExcel
    \/ ExportCsv

\* One run of the program.
Spec == Init /\ [][Next]_vars

\* normalise as a function: called with any of NormaliseInputs.
InitNormalise ==
    /\ args = [all_subjects |-> FALSE, csv |-> FALSE]
    /\ pc = "normalise"
    /\ fctx = "none"
    /\ attempt = 0
    /\ waits = <<>>
    /\ outcomes = <<>>
    /\ fres = NoResult
    /\ subjects = <<>>
    /\ si = 1
    /\ matching = <<>>
    /\ fetched = <<>>
    /\ got = <<>>
    /\ polite = 0
    /\ raw \in NormaliseInputs
    /\ ni = 1
    /\ seen = {}
    /\ rows = <<>>
    /\ kept = <<>>
    /\ exports = <<>>
    /\ exc = NoExc
    /\ exit_code = -1

NextNormalise == NormaliseStep \/ NormaliseReturn

SpecNormalise == InitNormalise /\ [][NextNormalise]_vars

(***************************************************************************)
(* Properties of normalise (checked under SpecNormalise)                   *)
(***************************************************************************)

\* normalise has returned to main: rows is its result.
NormaliseReturned == pc = "main_rows"

\* The rows built from the records the loop appended, in input order.
KeptRows == [ n \in 1..Len(kept) |-> MakeRow(raw[kept[n]]) ]

Count(seq, x) == Cardinality({ n \in 1..Len(seq) : seq[n] = x })

\* The returned rows are the kept rows, rearranged.
RowsAreKeptRows ==
    /\ Len(rows) = Len(kept)
    /\ \A n \in 1..Len(rows) : Count(rows, rows[n]) = Count(KeptRows, rows[n])

\* The raw description of a record, as the API gave it.
RawDesc(c) == GetOrNone(c, "crs_desc")

\* C1: every row of normalise's output carries a description the matcher
\* accepts, and no record whose own description the matcher rejects has a
\* row in it (rows is checked while it is built, too).
C1_OutputMatches ==
    /\ \A n \in 1..Len(rows) : mentions_math_31a(Str(rows[n].description))
    /\ \A n \in 1..Len(kept) :
          /\ ~MatcherRaises(RawDesc(raw[kept[n]]))
          /\ mentions_math_31a(RawDesc(raw[kept[n]]))
    /\ NormaliseReturned => RowsAreKeptRows

\* normalise returned rows after dropping a record the matcher rejects.
C1_Witness ==
    /\ NormaliseReturned
    /\ rows # <<>>
    /\ \E i \in 1..Len(raw) :
          /\ ~mentions_math_31a(RawDesc(raw[i]))
          /\ \A n \in 1..Len(kept) : kept[n] # i

\* Positions i < j of the input holding records with the same key and
\* different descriptions.
SameKeyPair(i, j) ==
    /\ i < j
    /\ ~KeyRaises(raw[i])
    /\ ~KeyRaises(raw[j])
    /\ Key(raw[i]) = Key(raw[j])
    /\ RawDesc(raw[i]) # RawDesc(raw[j])

\* The positions in kept of the records with key k.
KeptOfKey(k) == { n \in 1..Len(kept) : Key(raw[kept[n]]) = k }

\* The first input position whose record has key k.
FirstOfKey(k) ==
    CHOOSE i \in 1..Len(raw) :
        /\ Key(raw[i]) = k
        /\ \A h \in 1..(i - 1) : Key(raw[h]) # k

\* C2 as stated: for two records with the same key and different
\* descriptions the output has exactly one row for the key, built from the
\* first of the two.
C2_ExactlyOneRowFromFirst ==
    NormaliseReturned =>
        \A i, j \in 1..Len(raw) :
            SameKeyPair(i, j) =>
                /\ Cardinality(KeptOfKey(Key(raw[i]))) = 1
                /\ \A n \in KeptOfKey(Key(raw[i])) : kept[n] = i

\* C2 as amended: for two records with the same key and different
\* descriptions the output never has more than one row for the key, and a
\* row for the key is built from the first record of the input that has
\* the key; on return there is exactly one such row when that first
\* record's description passes the matcher, and none when it fails it,
\* whatever the later records with the key say.
C2_FirstSeenWins ==
    /\ \A n, m \in 1..Len(kept) :
          (n # m /\ ~KeyRaises(raw[kept[n]]) /\ ~KeyRaises(raw[kept[m]]))
              => Key(raw[kept[n]]) # Key(raw[kept[m]])
    /\ \A n \in 1..Len(kept) :
          \A h \in 1..(kept[n] - 1) : Key(raw[h]) # Key(raw[kept[n]])
    /\ NormaliseReturned =>
          /\ RowsAreKeptRows
          /\ \A i, j \in 1..Len(raw) :
                SameKeyPair(i, j) =>
                    LET k     == Key(raw[i])
                        first == FirstOfKey(k)
                    IN  /\ \A n \in KeptOfKey(k) : kept[n] = first
                        /\ Cardinality(KeptOfKey(k)) =
                              IF PrereqSearch(Desc(raw[first])) THEN 1 ELSE 0

\* normalise returned the row of the first of two matching records with
\* one key and different descriptions, and not the second's.
C2_Witness ==
    /\ NormaliseReturned
    /\ \E i, j \in 1..Len(raw) :
          /\ SameKeyPair(i, j)
          /\ mentions_math_31a(RawDesc(raw[i]))
          /\ mentions_math_31a(RawDesc(raw[j]))
          /\ \E n \in 1..Len(kept) : kept[n] = i
          /\ \A n \in 1..Len(kept) : kept[n] # j
          /\ MakeRow(raw[i]) # MakeRow(raw[j])
          /\ Count(rows, MakeRow(raw[i])) = 1
          /\ Count(rows, MakeRow(raw[j])) = 0

\* a <= b for str, by the first position where they differ.
StrLE(a, b) ==
    \/ a = b
    \/ \E k \in 1..Len(b) :
          /\ \A m \in 1..(k - 1) : m <= Len(a) /\ a[m] = b[m]
          /\ k > Len(a) \/ Ord(a[k]) < Ord(b[k])

\* (subject_area, course_name) of r1 <= that of r2
PairLE(r1, r2) ==
    IF r1.subject_area = r2.subject_area
    THEN StrLE(r1.course_name, r2.course_name)
    ELSE StrLE(r1.subject_area, r2.subject_area)

\* C3: the rows normalise returns are in non-decreasing order of
\* (subject_area, course_name), whatever the input order was.
C3_OutputSorted ==
    NormaliseReturned =>
        \A n \in 1..(Len(rows) - 1) : PairLE(rows[n], rows[n + 1])

\* normalise returned rows in another order than it met them, two of them
\* with one subject_area and different course names.
C3_Witness ==
    /\ NormaliseReturned
    /\ rows # KeptRows
    /\ \E n \in 1..(Len(rows) - 1) :
          /\ rows[n].subject_area = rows[n + 1].subject_area
          /\ rows[n].course_name # rows[n + 1].course_name

\* A raw record as C9 describes it: each field of interest absent, empty,
\* null or a value.
MissingDataRecord(c) ==
    /\ c.t = "dict"
    /\ DOMAIN c.v \subseteq Fields
    /\ \A f \in DOMAIN c.v :
          c.v[f].t \in {"str", "null"} \cup (IF f = "unt_rng" THEN {"num"} ELSE {})

Chars == { CodePoints[i] : i \in 1..Len(CodePoints) }

IsStr(x) == x \in SeqsUpTo(Chars, Len(x))

\* C9 as stated: on records with missing data normalise raises nothing,
\* and every row has the five fields, each a str.
C9_TotalOnMissingData ==
    (\A i \in 1..Len(raw) : MissingDataRecord(raw[i])) =>
        /\ exc.at # "normalise"
        /\ \A n \in 1..Len(rows) :
              /\ DOMAIN rows[n] = { "subject_area", "course_name", "units",
                                    "level", "description" }
              /\ \A f \in DOMAIN rows[n] : IsStr(rows[n][f])

(***************************************************************************)
(* Properties of fetch_json (checked under Spec)                           *)
(***************************************************************************)

\* The current fetch_json call has ended and its caller has not resumed.
FetchEnded == fctx # "none" /\ pc = ReturnTo(fctx) /\ fres.st # "none"

\* Attempt i of the current call met a rate-limit or service-unavailable
\* answer.
RateLimited(i) ==
    outcomes[i].kind = "HTTPError" /\ outcomes[i].code \in {429, 503}

\* Attempt i of the current call met a transient error.
Transient(i) == RateLimited(i) \/ outcomes[i].kind = "Exception"

\* Attempt i of the current call met a definitive HTTP error.
Definitive(i) ==
    outcomes[i].kind = "HTTPError" /\ outcomes[i].code \notin {429, 503}

\* C5: k rate-limit or service-unavailable answers (k = 0, 1, 2) followed by
\* a success make fetch_json return the success's payload after k + 1
\* attempts and k waits, the i-th wait lasting backoff * i; nothing is
\* attempted after a success.
C5_LinearBackoff ==
    \A k \in 0..(retries - 1) :
        ( /\ Len(outcomes) > k
          /\ \A i \in 1..k : RateLimited(i)
          /\ outcomes[k + 1].kind = "ok" )
        => /\ Len(outcomes) = k + 1
           /\ pc # "fetch_json"
           /\ fres.st = "ok"
           /\ fres.val = outcomes[k + 1].body
           /\ waits = [ i \in 1..k |-> backoff * i ]

\* fetch_json returned a payload on its third attempt, after two
\* rate-limit answers and two waits.
C5_Witness ==
    /\ FetchEnded
    /\ Len(outcomes) = 3
    /\ outcomes[1].code = 429
    /\ outcomes[2].code = 429
    /\ outcomes[3].kind = "ok"
    /\ fres.val # List(<<>>)
    /\ Len(waits) = 2

\* The search call's three attempts all met transient errors and the call
\* has ended.
SearchExhausted ==
    /\ fctx = "search"
    /\ pc # "fetch_json"
    /\ Len(outcomes) = retries
    /\ \A i \in 1..retries : Transient(i)

ExhaustionOutcome ==
    SearchExhausted =>
        IF outcomes[retries].kind = "Exception"
        THEN /\ fres.st = "raised"
             /\ Len(waits) = retries - 1
             /\ pc = "exit" => (exc.at = "fetch_json" /\ exit_code = 1)
        ELSE /\ fres = [st |-> "ok", val |-> List(<<>>), err |-> ""]
             /\ Len(waits) = retries
             /\ waits[retries] = backoff * retries
             /\ pc = "search_strategy"

\* An exception of the search call is caught neither by search_strategy
\* nor by main: the run ends there, with status 1 and nothing exported.
RaisedAborts ==
    (pc = "search_strategy" /\ fres.st = "raised")
        => (pc' = "exit" /\ exit_code' = 1 /\ exc'.at = "fetch_json"
            /\ exports' = <<>>)

\* The empty list fetch_json returns is an ordinary result: search_strategy
\* hands it to main, which exits with status 1 for want of courses.
EmptyListReturns ==
    /\ (pc = "search_strategy" /\ fres.st = "ok" /\ fres.val = List(<<>>))
          => (pc' = "main_raw" /\ raw' = <<>> /\ exc' = NoExc)
    /\ (pc = "main_raw" /\ raw = <<>>)
          => (pc' = "exit" /\ exit_code' = 1 /\ exc' = NoExc)

C7_DefinitiveErrorEndsCall ==
    \A i \in 1..Len(outcomes) :
        Definitive(i) =>
            /\ i = Len(outcomes)
            /\ pc # "fetch_json"
            /\ fres.st = "raised"
            /\ fres.err = "HTTPError"
            /\ attempt = i - 1
            /\ Len(waits) = i - 1

\* fetch_json raised on a definitive error met on a later attempt, having
\* waited once, for the rate-limit answer before it.
C7_Witness ==
    /\ Len(outcomes) = 2
    /\ RateLimited(1)
    /\ Definitive(2)
    /\ FetchEnded
    /\ fres.st = "raised"
    /\ Len(waits) = 1

(***************************************************************************)
(* Properties of main and of the strategies (checked under Spec)           *)
(***************************************************************************)

ExcelDone == [fn |-> "export_excel", done |-> TRUE]

\* C4: an export is made only once normalise has returned at least one
\* row; with no raw records, or with no rows, nothing is ever exported and
\* the process ends with status 1; the CSV export is made only after the
\* spreadsheet export has completed (and only with --csv).
C4_ExportOnlyWithRows ==
    /\ exports # <<>> =>
          /\ raw # <<>>
          /\ ni > Len(raw)
          /\ rows # <<>>
          /\ pc \in {"export_csv", "exit"}
          /\ exports[1].fn = "export_excel"
    /\ (raw = <<>> \/ rows = <<>>) =>
          /\ exports = <<>>
          /\ pc \notin {"export_excel", "export_csv"}
          /\ pc = "exit" => exit_code = 1
    /\ pc = "export_csv" => exports = << ExcelDone >>
    /\ \A n \in 1..Len(exports) :
          exports[n].fn = "export_csv" =>
              /\ n = 2
              /\ exports[1] = ExcelDone
              /\ args.csv
    /\ exit_code = 0 => (exports # <<>> /\ exports[Len(exports)].done)

\* A run that wrote the spreadsheet and then the CSV, and ended with
\* status 0.
C4_Witness ==
    /\ pc = "exit"
    /\ exit_code = 0
    /\ Len(exports) = 2
    /\ exports[2] = [fn |-> "export_csv", done |-> TRUE]
    /\ rows # <<>>

\* A parsed payload that is not a sequence of record objects.
Malformed(p) ==
    ~(p.t = "list" /\ \A n \in 1..Len(p.v) : p.v[n].t = "dict")

\* The last fetch_json call, made for ctx, returned a malformed payload
\* and its caller has resumed.
ConsumedMalformed(ctx, resumeAt) ==
    /\ fctx = ctx
    /\ fres.st = "ok"
    /\ Malformed(fres.val)
    /\ pc \notin {"fetch_json", resumeAt}

\* C8 as stated: a malformed payload counts as no data and raises nothing,
\* wherever it is consumed: as the search response, as the subject list, as
\* a subject's course list.
C8_MalformedIsNoData ==
    /\ ConsumedMalformed("search", "search_strategy") =>
          (raw = <<>> /\ exc = NoExc)
    /\ ConsumedMalformed("subjects", "all_subjects_1") =>
          (raw = <<>> /\ exc = NoExc)
    /\ ConsumedMalformed("courses", "all_subjects_2") =>
          ~(exc.at = "all_subjects_strategy" /\ Len(fetched) > Len(got))

\* Concatenation of the hits of the subjects whose fetch did not fail.
RECURSIVE HitsOf(_)
HitsOf(gs) ==
    IF gs = <<>> THEN <<>>
    ELSE HitsOf(SubSeq(gs, 1, Len(gs) - 1))
            \o (IF gs[Len(gs)].failed THEN <<>> ELSE Hits(gs[Len(gs)].body))

\* all_subjects_strategy got a subject list and is in its loop or past it.
InOrPastLoop ==
    /\ args.all_subjects
    /\ pc \notin {"main", "all_subjects_1"}
    /\ ~(pc = "fetch_json" /\ fctx = "subjects")
    /\ ~(fctx = "subjects" /\ fres.st = "raised")
    /\ ~(fctx = "subjects" /\ fres.st = "ok" /\ ~IsList(fres.val))

\* all_subjects_strategy has returned its list to main.
LoopReturned ==
    /\ InOrPastLoop
    /\ pc \in {"main_raw", "normalise", "main_rows", "export_excel",
               "export_csv"}

\* C10 as stated: whatever the subject list and whatever each subject's
\* fetch gives, the loop calls fetch_json once per subject in listing
\* order and reaches the end of the list, nothing aborting the run; what
\* it returns is the concatenation of the hits of the subjects whose fetch
\* succeeded.
C10_LoopReachesEnd ==
    InOrPastLoop =>
        /\ fetched = [ n \in 1..Len(fetched) |-> n ]
        /\ exc.at \notin {"all_subjects_strategy", "fetch_json"}
        /\ matching = HitsOf(got)
        /\ LoopReturned =>
              /\ Len(fetched) = Len(subjects)
              /\ Len(got) = Len(subjects)
              /\ raw = HitsOf(got)

\* The part of C10 that the code does keep: as long as nothing raises
\* outside the try of lines 135-139, every subject is fetched once, in
\* order, a subject whose fetch raises adds nothing, and the loop returns
\* the hits of the others.
LoopAbsorbsFetchFailures ==
    (InOrPastLoop /\ exc.at # "all_subjects_strategy") =>
        /\ fetched = [ n \in 1..Len(fetched) |-> n ]
        /\ exc.at # "fetch_json"
        /\ matching = HitsOf(got)
        /\ LoopReturned =>
              /\ Len(fetched) = Len(subjects)
              /\ Len(got) = Len(subjects)
              /\ raw = HitsOf(got)

====
